---- MODULE Spec2Model ----
(***************************************************************************)
(* Model of grid_search.py: the half-Kelly sizing function, the replay     *)
(* loop of simulate and the grid-search driver of main.                    *)
(*                                                                         *)
(* Numbers.  Python floats are binary floating point: every arithmetic     *)
(* operation returns the exact result rounded to the nearest representable *)
(* value (ties to even).  The model keeps that behaviour with a mantissa   *)
(* of MantBits bits instead of 53 and an unbounded exponent (no overflow,  *)
(* underflow, infinities or NaN).  A value is a reduced fraction           *)
(* [n |-> numerator, d |-> denominator] with d > 0; d = 0 stands for the   *)
(* ZeroDivisionError a division by zero raises, and propagates.            *)
(*                                                                         *)
(* Specifications.  Spec is main as written: the combinations of the       *)
(* product one after the other, then the three views.  SpecReplay is Spec  *)
(* on shorter record sequences that include a stake below the minimum.     *)
(* SpecPar runs the calls of the sweep in any order, interleaved.          *)
(* SpecKelly calls half_kelly once on arbitrary arguments.                 *)
(***************************************************************************)
EXTENDS Integers, Sequences, FiniteSets, TLC

\* Width of the mantissa of the modelled floating-point format.
MantBits == 6
\* Longest record sequence replayed by the sequential driver.
MaxLen == 5
\* Number of candidates taken from the front of each candidate list.
NumMinEdges == 2
NumMaxRemainings == 2
NumMaxBets == 2
\* Longest record sequence of the replay specification.
MaxReplayLen == 3
\* Longest record sequence and widest candidate list of the specification
\* with interleaved calls.
MaxParLen == 2
ParWidth == 2

VARIABLES
    trades,          \* the record sequence built by main (lines 71-96)
    min_edges,       \* candidate lists (lines 101-103)
    max_remainings,
    max_bets,
    todo,            \* combinations product(...) has not yet yielded
    calls,           \* active simulate calls: combination -> local frame
    results,         \* main's retained list
    filtered,        \* view B candidates (line 122)
    ratio_filtered,  \* view C candidates (line 133)
    pc,              \* position of main
    raised,          \* TRUE once a ZeroDivisionError was raised
    runs,            \* history: combination -> number of simulate calls made
    kin,             \* stand-alone half_kelly call: its arguments
    kout             \* stand-alone half_kelly call: its return value

vars == <<trades, min_edges, max_remainings, max_bets, todo, calls, results,
          filtered, ratio_filtered, pc, raised, runs, kin, kout>>

----------------------------------------------------------------------------
\* Floating-point arithmetic

RECURSIVE GCD(_, _)
GCD(a, b) == IF b = 0 THEN a ELSE GCD(b, a % b)

RECURSIVE Pow2(_)
Pow2(k) == IF k = 0 THEN 1 ELSE 2 * Pow2(k - 1)

IAbs(x) == IF x < 0 THEN -x ELSE x

ZeroDivisionError == [n |-> 0, d |-> 0]

IsError(x) == x.d = 0

\* The reduced fraction n/d (d may be negative, d = 0 is the error value).
Frac(n, d) ==
    IF d = 0 THEN ZeroDivisionError
    ELSE LET g == GCD(IAbs(n), IAbs(d))
             s == IF d < 0 THEN -1 ELSE 1
         IN  [n |-> s * (n \div g), d |-> s * (d \div g)]

\* q * 2^k
Scale(q, k) == IF k >= 0 THEN Frac(q * Pow2(k), 1) ELSE Frac(q, Pow2(-k))

\* Mantissas q satisfy MantLow <= q < MantHigh.
MantHigh == Pow2(MantBits)
MantLow == Pow2(MantBits - 1)

\* Nearest MantBits-bit value to n/d * 2^k  (n, d > 0), ties to even.
RECURSIVE RoundFit(_, _, _)
RoundFit(n, d, k) ==
    IF n >= d * MantHigh THEN RoundFit(n, 2 * d, k + 1)
    ELSE IF n < d * MantLow THEN RoundFit(2 * n, d, k - 1)
    ELSE LET q0 == n \div d
             r  == n % d
             up == (2 * r > d) \/ (2 * r = d /\ q0 % 2 = 1)
         IN  Scale(IF up THEN q0 + 1 ELSE q0, k)

\* Round-to-nearest of the exact value x.
Round(x) ==
    IF IsError(x) THEN ZeroDivisionError
    ELSE IF x.n = 0 THEN x
    ELSE IF x.n > 0 THEN RoundFit(x.n, x.d, 0)
    ELSE LET y == RoundFit(-x.n, x.d, 0) IN [n |-> -y.n, d |-> y.d]

\* The float of an integer or of a decimal literal n/d.
Float(n, d) == Round(Frac(n, d))

FAdd(x, y) ==
    IF IsError(x) \/ IsError(y) THEN ZeroDivisionError
    ELSE Round(Frac(x.n * y.d + y.n * x.d, x.d * y.d))

FNeg(x) == IF IsError(x) THEN ZeroDivisionError ELSE [n |-> -x.n, d |-> x.d]

FSub(x, y) == FAdd(x, FNeg(y))

FMul(x, y) ==
    IF IsError(x) \/ IsError(y) THEN ZeroDivisionError
    ELSE Round(Frac(x.n * y.n, x.d * y.d))

FDiv(x, y) ==
    IF IsError(x) \/ IsError(y) \/ y.n = 0 THEN ZeroDivisionError
    ELSE Round(Frac(x.n * y.d, x.d * y.n))

FAbs(x) == IF x.n < 0 THEN FNeg(x) ELSE x

\* Comparisons of two non-error values.
Lt(x, y) == x.n * y.d < y.n * x.d
Le(x, y) == x.n * y.d <= y.n * x.d

\* Python's max(a, b) and min(a, b): the first argument unless the second
\* is strictly larger (smaller).
FMax(a, b) ==
    IF IsError(a) \/ IsError(b) THEN ZeroDivisionError
    ELSE IF Lt(a, b) THEN b ELSE a
FMin(a, b) ==
    IF IsError(a) \/ IsError(b) THEN ZeroDivisionError
    ELSE IF Lt(b, a) THEN b ELSE a

Zero == Float(0, 1)
One == Float(1, 1)

----------------------------------------------------------------------------
\* half_kelly (lines 6-12)

\* Mutant: the guard lets price = 1 and price = 0 through.
half_kelly_open_guard(p, price, max_bet) ==
    IF Lt(price, Zero) \/ Lt(One, price) \/ Le(p, Zero) \/ Le(One, p)
    THEN Zero
    ELSE LET b     == FDiv(FSub(One, price), price)
             q     == FSub(One, p)
             kelly == FDiv(FSub(FMul(b, p), q), b)
         IN  FMax(Zero, FMin(FMul(FDiv(kelly, Float(2, 1)), max_bet), max_bet))

\* Mutant: the result is not clamped from below.
half_kelly_no_floor(p, price, max_bet) ==
    IF Le(price, Zero) \/ Le(One, price) \/ Le(p, Zero) \/ Le(One, p)
    THEN Zero
    ELSE LET b     == FDiv(FSub(One, price), price)
             q     == FSub(One, p)
             kelly == FDiv(FSub(FMul(b, p), q), b)
         IN  FMin(FMul(FDiv(kelly, Float(2, 1)), max_bet), max_bet)

half_kelly(p, price, max_bet) ==
    IF Le(price, Zero) \/ Le(One, price) \/ Le(p, Zero) \/ Le(One, p)
    THEN Zero
    ELSE LET b     == FDiv(FSub(One, price), price)
             q     == FSub(One, p)
             kelly == FDiv(FSub(FMul(b, p), q), b)
         IN  FMax(Zero, FMin(FMul(FDiv(kelly, Float(2, 1)), max_bet), max_bet))

----------------------------------------------------------------------------
\* simulate (lines 14-50)

\* The minimum stake of line 28, the literal 0.01.
MinStake == Float(1, 100)

\* Mutant: the peak starts below every total instead of at 0.
NewFrame_low_peak ==
    [at |-> "loop", i |-> 1, total_pnl |-> Zero, n_trades |-> 0, wins |-> 0,
     peak |-> Float(-64, 1), max_drawdown |-> Zero, path |-> <<Zero>>, r |-> <<>>]

\* The locals of a call at entry (lines 15-19).  path is a history of the
\* running total_pnl, starting at 0, one entry per counted trade.
NewFrame ==
    [at |-> "loop", i |-> 1, total_pnl |-> Zero, n_trades |-> 0, wins |-> 0,
     peak |-> Zero, max_drawdown |-> Zero, path |-> <<Zero>>, r |-> <<>>]

\* The call ends with an exception.
Raise(f) == [f EXCEPT !.at = "raised"]

\* Mutant: the edge filter also drops a record whose edge equals min_edge.
Body_strict_edge(f, t, min_edge, max_remaining, max_bet) ==
    IF Le(t.edge_net, Float(min_edge, 1)) THEN f
    ELSE IF t.remaining_s > max_remaining THEN f
    ELSE LET size == half_kelly(t.true_prob, t.entry_price, Float(max_bet, 1)) IN
         IF IsError(size) THEN Raise(f)
         ELSE IF Lt(size, MinStake) THEN f
         ELSE LET pnl == IF t.won
                         THEN FMul(size, FSub(FDiv(One, t.entry_price), One))
                         ELSE FNeg(size)
                  total == FAdd(f.total_pnl, pnl)
                  pk    == FMax(f.peak, total)
              IN  IF IsError(pnl) THEN Raise(f)
                  ELSE [f EXCEPT !.total_pnl = total,
                                 !.n_trades = @ + 1,
                                 !.wins = IF t.won THEN @ + 1 ELSE @,
                                 !.peak = pk,
                                 !.max_drawdown = FMin(@, FSub(total, pk)),
                                 !.path = Append(@, total)]

\* Mutant: no trade is taken while the running total is negative.
Body_stop_when_down(f, t, min_edge, max_remaining, max_bet) ==
    IF Lt(t.edge_net, Float(min_edge, 1)) \/ Lt(f.total_pnl, Zero) THEN f
    ELSE IF t.remaining_s > max_remaining THEN f
    ELSE LET size == half_kelly(t.true_prob, t.entry_price, Float(max_bet, 1)) IN
         IF IsError(size) THEN Raise(f)
         ELSE IF Lt(size, MinStake) THEN f
         ELSE LET pnl == IF t.won
                         THEN FMul(size, FSub(FDiv(One, t.entry_price), One))
                         ELSE FNeg(size)
                  total == FAdd(f.total_pnl, pnl)
                  pk    == FMax(f.peak, total)
              IN  IF IsError(pnl) THEN Raise(f)
                  ELSE [f EXCEPT !.total_pnl = total,
                                 !.n_trades = @ + 1,
                                 !.wins = IF t.won THEN @ + 1 ELSE @,
                                 !.peak = pk,
                                 !.max_drawdown = FMin(@, FSub(total, pk)),
                                 !.path = Append(@, total)]

\* One iteration of the loop over trades (lines 21-40) on record t.
Body(f, t, min_edge, max_remaining, max_bet) ==
    IF Lt(t.edge_net, Float(min_edge, 1)) THEN f
    ELSE IF t.remaining_s > max_remaining THEN f
    ELSE LET size == half_kelly(t.true_prob, t.entry_price, Float(max_bet, 1)) IN
         IF IsError(size) THEN Raise(f)
         ELSE IF Lt(size, MinStake) THEN f
         ELSE LET pnl == IF t.won
                         THEN FMul(size, FSub(FDiv(One, t.entry_price), One))
                         ELSE FNeg(size)
                  total == FAdd(f.total_pnl, pnl)
                  pk    == FMax(f.peak, total)
              IN  IF IsError(pnl) THEN Raise(f)
                  ELSE [f EXCEPT !.total_pnl = total,
                                 !.n_trades = @ + 1,
                                 !.wins = IF t.won THEN @ + 1 ELSE @,
                                 !.peak = pk,
                                 !.max_drawdown = FMin(@, FSub(total, pk)),
                                 !.path = Append(@, total)]

\* Mutant: the rate and the average are computed without the n_trades guard.
Result_unguarded(f) ==
    [pnl |-> f.total_pnl,
     trades |-> f.n_trades,
     wins |-> f.wins,
     wr |-> FMul(FDiv(Float(f.wins, 1), Float(f.n_trades, 1)), Float(100, 1)),
     max_dd |-> f.max_drawdown,
     pnl_per_trade |-> FDiv(f.total_pnl, Float(f.n_trades, 1))]

\* The returned dictionary (lines 42-50).
Result(f) ==
    [pnl |-> f.total_pnl,
     trades |-> f.n_trades,
     wins |-> f.wins,
     wr |-> IF f.n_trades > 0
            THEN FMul(FDiv(Float(f.wins, 1), Float(f.n_trades, 1)), Float(100, 1))
            ELSE Zero,
     max_dd |-> f.max_drawdown,
     pnl_per_trade |-> IF f.n_trades > 0
                       THEN FDiv(f.total_pnl, Float(f.n_trades, 1))
                       ELSE Zero]

ResultRaises(r) == IsError(r.wr) \/ IsError(r.pnl_per_trade)

\* simulate as a function: the loop run to its end on ts, then the return.
RECURSIVE Loop(_, _, _, _, _)
Loop(f, ts, min_edge, max_remaining, max_bet) ==
    IF f.at = "raised" \/ f.i > Len(ts) THEN f
    ELSE Loop([Body(f, ts[f.i], min_edge, max_remaining, max_bet) EXCEPT !.i = @ + 1],
              ts, min_edge, max_remaining, max_bet)

simulate(ts, min_edge, max_remaining, max_bet) ==
    Result(Loop(NewFrame, ts, min_edge, max_remaining, max_bet))

----------------------------------------------------------------------------
\* main: the inputs

\* Records main can build from trades.csv (lines 88-96); every field is a
\* value float() or int() returns.
Win      == [true_prob |-> Float(3, 4), entry_price |-> Float(1, 4),
             edge_net |-> Float(1, 1), remaining_s |-> 10, won |-> TRUE]
Loss     == [true_prob |-> Float(3, 4), entry_price |-> Float(1, 2),
             edge_net |-> Float(5, 1), remaining_s |-> 30, won |-> FALSE]
FreeWin  == [true_prob |-> Float(3, 4), entry_price |-> Float(0, 1),
             edge_net |-> Float(5, 1), remaining_s |-> 10, won |-> TRUE]
Small    == [true_prob |-> Float(17, 256), entry_price |-> Float(1, 16),
             edge_net |-> Float(5, 1), remaining_s |-> 10, won |-> FALSE]

RecordKinds == {Win, Loss, FreeWin}
ReplayKinds == {Win, Loss, FreeWin, Small}

SeqsUpTo(S, n) == UNION {[1..k -> S] : k \in 0..n}

\* The candidate lists of lines 101-103.
AllMinEdges == <<1, 3, 5, 8, 10, 12, 15, 20, 50>>
AllMaxRemainings == <<15, 30, 45, 60>>
AllMaxBets == <<3, 5, 8, 10>>

Prefix(s, n) == SubSeq(s, 1, IF n < Len(s) THEN n ELSE Len(s))

\* itertools.product(a, b, c): the last list varies fastest.
Product(a, b, c) ==
    [k \in 1..(Len(a) * Len(b) * Len(c)) |->
        <<a[((k - 1) \div (Len(b) * Len(c))) + 1],
          b[(((k - 1) \div Len(c)) % Len(b)) + 1],
          c[((k - 1) % Len(c)) + 1]>>]

Range(s) == {s[k] : k \in 1..Len(s)}

Combos == Range(Product(min_edges, max_remainings, max_bets))

\* The state of main at line 105 for records ts and the first ne, nr, nb
\* candidates of each list.
Start(ts, ne, nr, nb) ==
    /\ trades = ts
    /\ min_edges = Prefix(AllMinEdges, ne)
    /\ max_remainings = Prefix(AllMaxRemainings, nr)
    /\ max_bets = Prefix(AllMaxBets, nb)
    /\ todo = Product(min_edges, max_remainings, max_bets)
    /\ calls = <<>>
    /\ results = <<>>
    /\ filtered = <<>>
    /\ ratio_filtered = <<>>
    /\ pc = "sweep"
    /\ raised = FALSE
    /\ runs = [c \in Combos |-> 0]
    /\ kin = <<>>
    /\ kout = <<>>

Init ==
    \E ts \in SeqsUpTo(RecordKinds, MaxLen) :
        \/ Start(ts, 1, 1, 1)
        \/ Start(ts, NumMinEdges, NumMaxRemainings, NumMaxBets)

----------------------------------------------------------------------------
\* main: the sweep (lines 105-109)

Drop(f, c) == IF DOMAIN f = {c} THEN <<>> ELSE [x \in DOMAIN f \ {c} |-> f[x]]

\* Mutant: total_pnl is not reset at entry, the call starts from the total
\* another call left behind.
Enter_carry_over(c) ==
    /\ todo' = SelectSeq(todo, LAMBDA x : x # c)
    /\ calls' = (c :> [NewFrame EXCEPT !.total_pnl =
                          IF DOMAIN calls # {}
                          THEN calls[CHOOSE d \in DOMAIN calls : TRUE].total_pnl
                          ELSE IF results # <<>> THEN results[Len(results)][4].pnl
                          ELSE Zero]) @@ calls
    /\ runs' = [runs EXCEPT ![c] = @ + 1]
    /\ UNCHANGED <<trades, min_edges, max_remainings, max_bets, results,
                   filtered, ratio_filtered, pc, raised, kin, kout>>

\* simulate is entered for combination c (lines 106-107, 15-19).
Enter(c) ==
    /\ todo' = SelectSeq(todo, LAMBDA x : x # c)
    /\ calls' = (c :> NewFrame) @@ calls
    /\ runs' = [runs EXCEPT ![c] = @ + 1]
    /\ UNCHANGED <<trades, min_edges, max_remainings, max_bets, results,
                   filtered, ratio_filtered, pc, raised, kin, kout>>

\* The for statement takes the next combination of product(...).
StartCall ==
    /\ pc = "sweep" /\ ~raised
    /\ todo # <<>>
    /\ DOMAIN calls = {}
    /\ Enter(Head(todo))

\* One iteration of the loop of simulate in the call for c (lines 21-40).
SimIter(c) ==
    /\ ~raised
    /\ c \in DOMAIN calls
    /\ calls[c].at = "loop"
    /\ calls[c].i <= Len(trades)
    /\ LET f == Body(calls[c], trades[calls[c].i], c[1], c[2], c[3]) IN
         /\ calls' = [calls EXCEPT ![c] = [f EXCEPT !.i = @ + 1]]
         /\ raised' = (f.at = "raised")
    /\ UNCHANGED <<trades, min_edges, max_remainings, max_bets, todo, results,
                   filtered, ratio_filtered, pc, runs, kin, kout>>

\* The loop is over: the result is built (lines 42-50).
SimReturn(c) ==
    /\ ~raised
    /\ c \in DOMAIN calls
    /\ calls[c].at = "loop"
    /\ calls[c].i > Len(trades)
    /\ LET r == Result(calls[c]) IN
         /\ calls' = [calls EXCEPT ![c] =
                         IF ResultRaises(r) THEN Raise(@)
                         ELSE [@ EXCEPT !.at = "ret", !.r = <<r>>]]
         /\ raised' = ResultRaises(r)
    /\ UNCHANGED <<trades, min_edges, max_remainings, max_bets, todo, results,
                   filtered, ratio_filtered, pc, runs, kin, kout>>

\* Mutant: a result without trades is kept too.
Collect_keep_empty(c) ==
    /\ ~raised
    /\ c \in DOMAIN calls
    /\ calls[c].at = "ret"
    /\ results' = Append(results, <<c[1], c[2], c[3], calls[c].r[1]>>)
    /\ calls' = Drop(calls, c)
    /\ UNCHANGED <<trades, min_edges, max_remainings, max_bets, todo,
                   filtered, ratio_filtered, pc, raised, runs, kin, kout>>

\* main keeps the result if it has trades (lines 107-109).
Collect(c) ==
    /\ ~raised
    /\ c \in DOMAIN calls
    /\ calls[c].at = "ret"
    /\ LET r == calls[c].r[1] IN
         results' = IF r.trades > 0
                    THEN Append(results, <<c[1], c[2], c[3], r>>)
                    ELSE results
    /\ calls' = Drop(calls, c)
    /\ UNCHANGED <<trades, min_edges, max_remainings, max_bets, todo,
                   filtered, ratio_filtered, pc, raised, runs, kin, kout>>

----------------------------------------------------------------------------
\* main: the three views (lines 111-140)

\* Rows a view needs at least (lines 122, 133) and the deepest drawdown
\* view C leaves out (line 133, the literal -0.01).
MinTrades == 5
DrawdownCut == FNeg(Float(1, 100))

\* list.sort(key=..., reverse=True) on a list of <<key, item>> pairs: a
\* stable sort, items of equal key keep their order.
RECURSIVE InsertDesc(_, _)
InsertDesc(sorted, x) ==
    IF sorted = <<>> THEN <<x>>
    ELSE IF Lt(Head(sorted)[1], x[1]) THEN <<x>> \o sorted
    ELSE <<Head(sorted)>> \o InsertDesc(Tail(sorted), x)

RECURSIVE SortDesc(_)
SortDesc(pairs) ==
    IF pairs = <<>> THEN <<>>
    ELSE InsertDesc(SortDesc(SubSeq(pairs, 1, Len(pairs) - 1)), pairs[Len(pairs)])

\* The rows paired with their sort keys.
Keyed(rows, keys) == [k \in 1..Len(rows) |-> <<keys[k], rows[k]>>]
Items(pairs) == [k \in 1..Len(pairs) |-> pairs[k][2]]
AnyError(pairs) == \E k \in 1..Len(pairs) : IsError(pairs[k][1])

Take(s, n) == SubSeq(s, 1, IF n < Len(s) THEN n ELSE Len(s))

PnlKey(x) == x[4].pnl
PerTradeKey(x) == x[4].pnl_per_trade
RatioKey(x) == FDiv(x[4].pnl, FAbs(x[4].max_dd))
PnlKeys(rows) == [k \in 1..Len(rows) |-> PnlKey(rows[k])]
PerTradeKeys(rows) == [k \in 1..Len(rows) |-> PerTradeKey(rows[k])]
RatioKeys(rows) == [k \in 1..Len(rows) |-> RatioKey(rows[k])]

\* results.sort(...) of line 112: the list is sorted in place.
SortedByPnl(rows) == Items(SortDesc(Keyed(rows, PnlKeys(rows))))

\* The list comprehensions of lines 122 and 133.
EnoughTrades(x) == x[4].trades >= MinTrades
\* Mutant: view C forgets the minimum number of trades.
DeepDrawdown_any_count(x) == Lt(x[4].max_dd, DrawdownCut)
DeepDrawdown(x) == x[4].trades >= MinTrades /\ Lt(x[4].max_dd, DrawdownCut)

\* The rows printed (lines 115, 126, 137).
ViewA == Take(results, 25)
ViewB == Take(filtered, 15)
ViewC == Take(ratio_filtered, 15)

\* Top 25 by PnL (line 112).
SortA ==
    /\ pc = "sweep" /\ ~raised
    /\ todo = <<>>
    /\ DOMAIN calls = {}
    /\ results' = SortedByPnl(results)
    /\ pc' = "viewB"
    /\ UNCHANGED <<trades, min_edges, max_remainings, max_bets, todo, calls,
                   filtered, ratio_filtered, raised, runs, kin, kout>>

\* Mutant: filtered is another name of results, which the sort reorders.
BuildB_in_place ==
    /\ pc = "viewB"
    /\ results' = Items(SortDesc(Keyed(results, PerTradeKeys(results))))
    /\ filtered' = SelectSeq(results', EnoughTrades)
    /\ pc' = "viewC"
    /\ UNCHANGED <<trades, min_edges, max_remainings, max_bets, todo, calls,
                   ratio_filtered, raised, runs, kin, kout>>

\* Best PnL per trade (lines 122-123): a new list, then sorted.
BuildB ==
    /\ pc = "viewB"
    /\ LET rows == SelectSeq(results, EnoughTrades) IN
         filtered' = Items(SortDesc(Keyed(rows, PerTradeKeys(rows))))
    /\ pc' = "viewC"
    /\ UNCHANGED <<trades, min_edges, max_remainings, max_bets, todo, calls,
                   results, ratio_filtered, raised, runs, kin, kout>>

\* Best PnL / drawdown ratio (lines 133-134): a new list, then sorted.
BuildC ==
    /\ pc = "viewC"
    /\ LET rows  == SelectSeq(results, DeepDrawdown)
           keyed == Keyed(rows, RatioKeys(rows))
       IN
         IF AnyError(keyed)
         THEN /\ raised' = TRUE
              /\ pc' = "raised"
              /\ UNCHANGED ratio_filtered
         ELSE /\ raised' = FALSE
              /\ pc' = "done"
              /\ ratio_filtered' = Items(SortDesc(keyed))
    /\ UNCHANGED <<trades, min_edges, max_remainings, max_bets, todo, calls,
                   results, filtered, runs, kin, kout>>

Next ==
    \/ StartCall
    \/ \E c \in DOMAIN calls : SimIter(c)
    \/ \E c \in DOMAIN calls : SimReturn(c)
    \/ \E c \in DOMAIN calls : Collect(c)
    \/ SortA
    \/ BuildB
    \/ BuildC

Spec == Init /\ [][Next]_vars

\* The replay on every short record sequence, the small stake included.
InitReplay ==
    \E ts \in SeqsUpTo(ReplayKinds, MaxReplayLen) :
        Start(ts, NumMinEdges, NumMaxRemainings, NumMaxBets)

SpecReplay == InitReplay /\ [][Next]_vars

----------------------------------------------------------------------------
\* The sweep with its combinations evaluated in any order, their calls
\* interleaved record by record.  Each call owns its frame, as a Python call
\* owns its locals; trades is the one object the calls share.

InitPar ==
    \E ts \in SeqsUpTo(ReplayKinds, MaxParLen) :
        \/ Start(ts, ParWidth, 1, 1)
        \/ Start(ts, 1, ParWidth, 1)
        \/ Start(ts, 1, 1, ParWidth)

StartAny ==
    /\ pc = "sweep" /\ ~raised
    /\ \E c \in Range(todo) : Enter(c)

NextPar ==
    \/ StartAny
    \/ \E c \in DOMAIN calls : SimIter(c)
    \/ \E c \in DOMAIN calls : SimReturn(c)
    \/ \E c \in DOMAIN calls : Collect(c)
    \/ SortA
    \/ BuildB
    \/ BuildC

SpecPar == InitPar /\ [][NextPar]_vars

----------------------------------------------------------------------------
\* half_kelly called on its own with arbitrary arguments.

KellyProbs == {Float(-1, 2), Zero, Float(1, 16), Float(1, 4), Float(1, 2),
               Float(3, 4), One, Float(3, 2)}
KellyBets == {Float(-3, 1), Zero, Float(1, 2), Float(3, 1), Float(10, 1)}

InitKelly ==
    /\ kin \in KellyProbs \X KellyProbs \X KellyBets
    /\ kout = <<>>
    /\ trades = <<>>
    /\ min_edges = <<>>
    /\ max_remainings = <<>>
    /\ max_bets = <<>>
    /\ todo = <<>>
    /\ calls = <<>>
    /\ results = <<>>
    /\ filtered = <<>>
    /\ ratio_filtered = <<>>
    /\ pc = "kelly"
    /\ raised = FALSE
    /\ runs = <<>>

KellyCall ==
    /\ pc = "kelly"
    /\ kout = <<>> /\ ~raised
    /\ LET a == half_kelly(kin[1], kin[2], kin[3]) IN
         /\ raised' = IsError(a)
         /\ kout' = IF IsError(a) THEN <<>> ELSE <<a>>
    /\ UNCHANGED <<trades, min_edges, max_remainings, max_bets, todo, calls,
                   results, filtered, ratio_filtered, pc, runs, kin>>

SpecKelly == InitKelly /\ [][KellyCall]_vars

----------------------------------------------------------------------------
\* Claims on half_kelly (SpecKelly)

Returned == kout # <<>>
Degenerate == \/ Le(kin[2], Zero) \/ Le(One, kin[2])
              \/ Le(kin[1], Zero) \/ Le(One, kin[1])

\* C1 as stated: for every p, price and max_bet the allocation a returned by
\* half_kelly satisfies 0 <= a <= max_bet.
C1_AnyCap == Returned => Le(Zero, kout[1]) /\ Le(kout[1], kin[3])

\* C1 amended: for every p and price and every max_bet >= 0 the allocation a
\* returned by half_kelly satisfies 0 <= a <= max_bet.
C1_NonNegativeCap ==
    (Returned /\ Le(Zero, kin[3])) => Le(Zero, kout[1]) /\ Le(kout[1], kin[3])

\* A call with p and price inside (0,1) that returned a positive allocation
\* below the cap.
C1_Witness ==
    Returned /\ ~Degenerate /\ Lt(Zero, kout[1]) /\ Lt(kout[1], kin[3])

\* C2: on a degenerate input (price <= 0, price >= 1, p <= 0 or p >= 1)
\* half_kelly raises nothing and returns exactly 0, whatever max_bet is.
C2_DegenerateIsZero ==
    Degenerate => ~raised /\ (Returned => kout[1] = Zero)

\* A call with price = 1 and a non-zero cap that returned 0.
C2_Witness == Returned /\ kin[2] = One /\ kin[3] # Zero /\ kout[1] = Zero

----------------------------------------------------------------------------
\* Claims on simulate (SpecReplay)

NonDecreasing(path) == \A k \in 1..(Len(path) - 1) : Le(path[k], path[k + 1])

\* C3: max_drawdown <= 0 after every record, and at the end of the replay
\* max_drawdown = 0 exactly when the running total_pnl, from its start at 0,
\* never decreased from one counted trade to the next.
C3_Drawdown ==
    \A c \in DOMAIN calls :
        /\ Le(calls[c].max_drawdown, Zero)
        /\ calls[c].at = "ret" =>
              (calls[c].r[1].max_dd = Zero <=> NonDecreasing(calls[c].path))

\* A finished replay of several trades that ends in profit after a drawdown.
C3_Witness ==
    \E c \in DOMAIN calls :
        /\ calls[c].at = "ret"
        /\ calls[c].n_trades >= 2
        /\ Lt(calls[c].max_drawdown, Zero)
        /\ Lt(Zero, calls[c].total_pnl)

Permuted(ts, pi) == [k \in 1..Len(ts) |-> ts[pi[k]]]

\* The results of the replay of every permutation of trades for c.
Reorderings(c) ==
    {simulate(Permuted(trades, pi), c[1], c[2], c[3]) :
        pi \in Permutations(1..Len(trades))}

\* C4 as stated: the replay of any permutation of the records returns the
\* same total_pnl, n_trades, wins, win rate and pnl per trade.
C4_SameAggregates ==
    \A c \in DOMAIN calls :
        calls[c].at = "ret" =>
            \A o \in Reorderings(c) :
                LET r == calls[c].r[1] IN
                    /\ o.pnl = r.pnl /\ o.pnl_per_trade = r.pnl_per_trade
                    /\ o.trades = r.trades /\ o.wins = r.wins /\ o.wr = r.wr

\* C4 amended: the replay of any permutation of the records returns the same
\* n_trades, wins and win rate.
C4_SameCounts ==
    \A c \in DOMAIN calls :
        calls[c].at = "ret" =>
            \A o \in Reorderings(c) :
                LET r == calls[c].r[1] IN
                    o.trades = r.trades /\ o.wins = r.wins /\ o.wr = r.wr

\* A finished replay of several trades one of whose reorderings has another
\* max_drawdown.
C4_Witness ==
    \E c \in DOMAIN calls :
        /\ calls[c].at = "ret"
        /\ calls[c].n_trades >= 2
        /\ \E o \in Reorderings(c) : o.max_dd # calls[c].r[1].max_dd

\* What one step of a loop may do to the locals of its call.
C10_Iteration ==
    \A c \in DOMAIN calls \cap DOMAIN calls' :
        LET f == calls[c]
            g == calls'[c]
        IN  (f.at = "loop" /\ g.i = f.i + 1) =>
              LET t == trades[f.i]
                  counted ==
                      /\ Le(Float(c[1], 1), t.edge_net)
                      /\ t.remaining_s <= c[2]
                      /\ Le(MinStake,
                            half_kelly(t.true_prob, t.entry_price, Float(c[3], 1)))
              IN  /\ counted => /\ g.n_trades = f.n_trades + 1
                                /\ g.wins = f.wins + (IF t.won THEN 1 ELSE 0)
                  /\ ~counted =>
                        <<g.total_pnl, g.n_trades, g.wins, g.peak, g.max_drawdown>>
                        = <<f.total_pnl, f.n_trades, f.wins, f.peak, f.max_drawdown>>
                  /\ g.wins <= g.n_trades

\* C10: an iteration counts its record exactly when edge_net >= min_edge,
\* remaining_s <= max_remaining and the half-Kelly size >= 0.01; a record not
\* counted leaves total_pnl, n_trades, wins, peak and max_drawdown unchanged,
\* a counted one adds 1 to n_trades and 1 to wins exactly when it won, and
\* wins <= n_trades.
C10_Counting == [][C10_Iteration]_vars

\* A finished loop that counted a won and a lost record and skipped another.
C10_Witness ==
    \E c \in DOMAIN calls :
        /\ calls[c].i > Len(trades)
        /\ calls[c].n_trades = 2
        /\ calls[c].wins = 1
        /\ Len(trades) = 3

----------------------------------------------------------------------------
\* Claims on the driver (Spec, SpecPar)

SweepOver == todo = <<>> /\ DOMAIN calls = {} /\ ~raised

RowCombo(x) == <<x[1], x[2], x[3]>>
Rows(s) == {s[k] : k \in 1..Len(s)}
Retained(c) == \E x \in Rows(results) : RowCombo(x) = c
ProductIndex(c) ==
    CHOOSE k \in 1..Len(Product(min_edges, max_remainings, max_bets)) :
        Product(min_edges, max_remainings, max_bets)[k] = c

\* C5 as stated: once the sweep is over the retained list is never changed.
C5_NeverMutated == [][SweepOver => results' = results]_vars

\* C5 amended: once the sweep is over the retained list is sorted in place
\* once, for view A, by total_pnl descending: it keeps its rows but not the
\* order they were appended in; building views B and C, two new lists taken
\* from the sorted one, does not change it.
C5_SortedOnce ==
    [][SweepOver =>
          /\ Rows(results') = Rows(results) /\ Len(results') = Len(results)
          /\ \A j, k \in 1..Len(results') :
                j < k => ~Lt(results'[j][4].pnl, results'[k][4].pnl)
          /\ pc # "sweep" => results' = results]_vars

\* The three views are built and the retained list is no longer in the order
\* of the sweep.
C5_Witness ==
    /\ pc = "done"
    /\ filtered # <<>>
    /\ \E j, k \in 1..Len(results) :
          j < k /\ ProductIndex(RowCombo(results[j])) > ProductIndex(RowCombo(results[k]))

\* C6: simulate runs exactly once for every combination of the product and
\* the combination is retained exactly when its result has trades; one
\* candidate per list whose result has trades leaves exactly one retained
\* row; without any retained row the three views are empty.
C6_Sweep ==
    /\ \A c \in Combos : runs[c] <= 1
    /\ SweepOver =>
          /\ \A c \in Combos :
                /\ runs[c] = 1
                /\ Retained(c) <=> simulate(trades, c[1], c[2], c[3]).trades > 0
          /\ Len(results) = Cardinality({RowCombo(x) : x \in Rows(results)})
          /\ (Cardinality(Combos) = 1 /\ \A c \in Combos : Retained(c))
                => Len(results) = 1
    /\ (pc = "done" /\ results = <<>>) =>
          ViewA = <<>> /\ ViewB = <<>> /\ ViewC = <<>>

\* The sweep of several combinations is over, with a retained and a dropped
\* combination.
C6_Witness ==
    /\ pc = "done"
    /\ \E c, d \in Combos : Retained(c) /\ ~Retained(d)

\* C7: every row of views B and C has at least 5 trades, every row of view C
\* has max_drawdown < -0.01, and every retained row that passes a view's
\* filter is among the view's candidates.
C7_Filters ==
    pc = "done" =>
        /\ \A x \in Rows(filtered) : x[4].trades >= 5
        /\ \A x \in Rows(ratio_filtered) :
              x[4].trades >= 5 /\ Lt(x[4].max_dd, FNeg(Float(1, 100)))
        /\ \A x \in Rows(results) :
              /\ x[4].trades >= 5 => x \in Rows(filtered)
              /\ (x[4].trades >= 5 /\ Lt(x[4].max_dd, FNeg(Float(1, 100))))
                    => x \in Rows(ratio_filtered)
        /\ Rows(ViewB) \subseteq Rows(filtered)
        /\ Rows(ViewC) \subseteq Rows(ratio_filtered)

\* Views B and C have rows and a retained row is in neither.
C7_Witness ==
    /\ pc = "done"
    /\ ViewB # <<>>
    /\ ViewC # <<>>
    /\ \E x \in Rows(results) : x \notin Rows(filtered)

\* What one step of the interleaved sweep may do.
C8_Step ==
    /\ trades' = trades
    /\ \A c \in DOMAIN calls' :
          calls'[c].at = "ret" =>
              calls'[c].r[1] = simulate(trades, c[1], c[2], c[3])
    /\ \A x \in Rows(results') : x[4] = simulate(trades, x[1], x[2], x[3])
    /\ SweepOver' =>
          {RowCombo(x) : x \in Rows(results')}
          = {c \in Combos : simulate(trades, c[1], c[2], c[3]).trades > 0}

\* C8: whatever the order in which the combinations are evaluated and however
\* their calls interleave, trades is never modified, every result is the one
\* simulate returns for its own combination on trades, and the retained
\* combinations are those whose result has trades.
C8_AnyOrder == [][C8_Step]_vars

\* Two calls are active, the later combination of the product has returned
\* a result with trades while the earlier one is still in its loop.
C8_Witness ==
    \E c, d \in DOMAIN calls :
        /\ ProductIndex(c) > ProductIndex(d)
        /\ calls[c].at = "ret" /\ calls[c].n_trades > 0
        /\ calls[d].at = "loop" /\ calls[d].i > 1 /\ calls[d].n_trades > 0

InUnit(x) == Lt(Zero, x) /\ Lt(x, One)

\* What one step of main may do where the code divides.
C9_Step ==
    /\ ~raised'
    /\ \A c \in DOMAIN calls \cap DOMAIN calls' :
          LET f == calls[c]
              g == calls'[c]
          IN  /\ (f.at = "loop" /\ g.i = f.i + 1 /\ ~InUnit(trades[f.i].entry_price))
                    => g.n_trades = f.n_trades /\ g.total_pnl = f.total_pnl
              /\ (g.at = "ret" /\ g.r[1].trades = 0)
                    => g.r[1].wr = Zero /\ g.r[1].pnl_per_trade = Zero
    /\ \A x \in Rows(ratio_filtered') : Lt(x[4].max_dd, FNeg(Float(1, 100)))

\* C9: no division by zero is raised: a record whose entry_price is not in
\* (0,1) is dropped before its payout 1/entry_price is computed, the rate
\* and the average of a result without trades are 0, and view C holds only
\* rows with max_drawdown < -0.01.
C9_NoZeroDivision == [][C9_Step]_vars

\* The views are built from records that hold a won record of price 0, with
\* a combination without trades and a retained row of max_drawdown 0.
C9_Witness ==
    /\ pc = "done"
    /\ \E k \in 1..Len(trades) : trades[k].entry_price = Zero /\ trades[k].won
    /\ \E c \in Combos : ~Retained(c)
    /\ \E x \in Rows(results) : x[4].max_dd = Zero

====
